---- MODULE Spec2Model ----
(***************************************************************************)
(* IMSA: downtime tracking and recovery of the Telegram bot.               *)
(*                                                                         *)
(* The main process (src/src/main.py), the Heartbeat Writer                *)
(* (src/src/timer.py), the Network Watchdog (src/src/network_tracker.py)   *)
(* and the Notification Fan-out (notify_users_downtime in main.py) are     *)
(* modelled as processes stepping over a shared heartbeat file, a wall     *)
(* clock and a network that goes up and down.                              *)
(*                                                                         *)
(* Time is counted in ticks of half a second, so that round(time()) is a   *)
(* real rounding and not the identity.  The file holds                     *)
(* text (a sequence of characters): str() and int() are modelled as the    *)
(* conversions they are.                                                   *)
(***************************************************************************)
EXTENDS Integers, Sequences, FiniteSets, TLC

(***************************************************************************)
(* Bounds of the model.                                                    *)
(***************************************************************************)
MaxTick == 3            \* horizon of the clock in the process models
MaxRuns == 2            \* starts of the main process by its supervisor
MaxWatchedRuns == 1     \* the same, in the model of one watched run
MaxStamp == 104         \* largest second drawn in the startup model
MaxUsers == 3           \* rows of the users table in the fan-out model
MaxAttempts == 4        \* connection attempts followed in one probe call
MaxDays == 2            \* whole days in the durations given to format_seconds
MaxRows == 2            \* telegram ids, and so rows, in the model of the directory

(***************************************************************************)
(* Program constants.                                                      *)
(***************************************************************************)
TIMER_TIMEOUT == 1
MIN_DOWNTIME == 60
\* Imported by helpers.py and network_tracker.py; constants.py of this
\* revision does not set them, the model takes one second for each.
NETWORK_CHECK_MAX_WAIT == 1
NETWORK_TRACKER_TIMEOUT == 1
NETWORK_CHECK_TIMEOUT == 1
\* 0.1 second, in milliseconds: the event loop's clock of the fan-out model
DOWNTIME_NOTIFICATION_TIMEOUT == 100

UNKNOWN == "[UNKNOWN]"

ROLE_USER == "user"
ROLE_ADMIN == "admin"
OWNER_DEFAULT_USERNAME == <<"O", "W", "N", "E", "R">>
\* the owner's Telegram id, OWNER_USER_ID of the environment
OWNER_USER_ID == 1

\* is_valid_string(to_validate, max_length=128)
max_length == 128

(***************************************************************************)
(* Text of integers: str(int) and int(str).                                *)
(***************************************************************************)
Digits == <<"0", "1", "2", "3", "4", "5", "6", "7", "8", "9">>

IsDigit(c) == \E i \in 1..10 : Digits[i] = c

DigitVal(c) == (CHOOSE i \in 1..10 : Digits[i] = c) - 1

RECURSIVE StrNat(_)
StrNat(n) ==
    IF n < 10 THEN <<Digits[n + 1]>>
    ELSE StrNat(n \div 10) \o <<Digits[(n % 10) + 1]>>

\* str(n) of a Python int
Str(n) == IF n < 0 THEN <<"-">> \o StrNat(-n) ELSE StrNat(n)

Whitespace == {" ", "\n"}

RECURSIVE LStrip(_)
LStrip(s) == IF s # <<>> /\ Head(s) \in Whitespace THEN LStrip(Tail(s)) ELSE s

RECURSIVE RStrip(_)
RStrip(s) ==
    IF s # <<>> /\ s[Len(s)] \in Whitespace
    THEN RStrip(SubSeq(s, 1, Len(s) - 1))
    ELSE s

\* digits, with single underscores allowed between two digits
ValidBody(b) ==
    /\ Len(b) > 0
    /\ IsDigit(b[1])
    /\ IsDigit(b[Len(b)])
    /\ \A i \in 1..Len(b) :
          \/ IsDigit(b[i])
          \/ (b[i] = "_" /\ i > 1 /\ IsDigit(b[i - 1]))

RECURSIVE BodyVal(_)
BodyVal(b) ==
    IF b = <<>> THEN 0
    ELSE LET init == SubSeq(b, 1, Len(b) - 1)
             last == b[Len(b)]
         IN  IF last = "_" THEN BodyVal(init)
             ELSE 10 * BodyVal(init) + DigitVal(last)

\* int(s) of Python: ok = FALSE stands for ValueError
ParseInt(s) ==
    LET t == RStrip(LStrip(s))
        signed == t # <<>> /\ t[1] \in {"+", "-"}
        body == IF signed THEN Tail(t) ELSE t
    IN  IF ValidBody(body)
        THEN [ok |-> TRUE,
              val |-> IF signed /\ t[1] = "-" THEN -BodyVal(body)
                      ELSE BodyVal(body)]
        ELSE [ok |-> FALSE, val |-> 0]

\* round(time()) at tick h: to the nearest second, a half to the even one
Round(h) ==
    LET whole == h \div 2
    IN  IF h % 2 = 0 THEN whole
        ELSE IF whole % 2 = 0 THEN whole ELSE whole + 1

Ticks(seconds) == 2 * seconds

(***************************************************************************)
(* helpers.is_valid_string                                                 *)
(***************************************************************************)
Letters ==
    {"a", "b", "c", "d", "e", "f", "g", "h", "i", "j", "k", "l", "m",
     "n", "o", "p", "q", "r", "s", "t", "u", "v", "w", "x", "y", "z",
     "A", "B", "C", "D", "E", "F", "G", "H", "I", "J", "K", "L", "M",
     "N", "O", "P", "Q", "R", "S", "T", "U", "V", "W", "X", "Y", "Z"}

\* the class [a-zA-Z0-9_]
IsWordChar(c) == IsDigit(c) \/ c \in Letters \/ c = "_"

\* len(to_validate) > max_length is refused; fullmatch of [a-zA-Z0-9_]+
is_valid_string(to_validate) ==
    /\ Len(to_validate) <= max_length
    /\ Len(to_validate) > 0
    /\ \A i \in 1..Len(to_validate) : IsWordChar(to_validate[i])

(***************************************************************************)
(* helpers.format_seconds                                                  *)
(***************************************************************************)
\* a unit name that takes its s for every count
PluralAlways(n, unit) == ToString(n) \o " " \o unit \o "s"

\* lines 98, 100, 102: f"{n} unit{'s' if n != 1 else ''}"
Plural(n, unit) == ToString(n) \o " " \o unit \o (IF n # 1 THEN "s" ELSE "")

RECURSIVE Join(_)
Join(parts) ==
    IF Len(parts) = 0 THEN ""
    ELSE IF Len(parts) = 1 THEN parts[1]
    ELSE parts[1] \o ", " \o Join(Tail(parts))

\* a formatter without the guard for negative input
format_seconds_unguarded(seconds) ==
    LET days == seconds \div 86400
        rest == seconds % 86400
        hours == rest \div 3600
        minutes == (rest % 3600) \div 60
        p1 == IF days # 0 THEN <<Plural(days, "day")>> ELSE <<>>
        p2 == IF hours # 0 THEN Append(p1, Plural(hours, "hour")) ELSE p1
        p3 == IF minutes # 0 \/ p2 = <<>>
              THEN Append(p2, Plural(minutes, "minute")) ELSE p2
    IN  Join(p3)

format_seconds(seconds) ==
    IF seconds < 0 THEN UNKNOWN
    ELSE LET days == seconds \div 86400
             rest == seconds % 86400
             hours == rest \div 3600
             minutes == (rest % 3600) \div 60
             p1 == IF days # 0 THEN <<Plural(days, "day")>> ELSE <<>>
             p2 == IF hours # 0 THEN Append(p1, Plural(hours, "hour")) ELSE p1
             p3 == IF minutes # 0 \/ p2 = <<>>
                   THEN Append(p2, Plural(minutes, "minute")) ELSE p2
         IN  Join(p3)

(***************************************************************************)
(* State.                                                                  *)
(***************************************************************************)
VARIABLES
    now,      \* the wall clock, in ticks
    net,      \* whether the probe targets are reachable
    file,     \* the heartbeat file: [exists, data]
    written,  \* the integer whose text the file holds: Stamp(v), or NoStamp
    main,     \* the main process
    timerp,   \* the Heartbeat Writer processes, by the run that started them
    wdog,     \* the Network Watchdog processes, by the run that started them
    fan,      \* the Notification Fan-out task of the main process
    table,    \* the rows of the users table, in rowid order
    probe,    \* one call of network_available, attempt by attempt
    chat,     \* the router: start time, conversation states, last update
    store     \* the IMSADB object: its connection and its last call

vars == <<now, net, file, written, main, timerp, wdog, fan, table, probe, chat, store>>

RunIds == 1..(IF MaxRuns > MaxWatchedRuns THEN MaxRuns ELSE MaxWatchedRuns)

NoStamp == [known |-> FALSE, val |-> 0]

Stamp(v) == [known |-> TRUE, val |-> v]

NoFile == [exists |-> FALSE, data |-> <<>>]

\* the last call of a method of IMSADB: what it was given, the statement
\* that failed with an aiosqlite.Error during it ("none" when none did),
\* what it returned or raised
NoCall ==
    [op |-> "none", telegram_id |-> 0, name |-> <<>>, role |-> "",
     fault |-> "none", result |-> "none", raised |-> "none"]

\* IMSADB() of main.py line 48: self._db is None; also the value while no
\* main process, and so no object, exists
StoreNew == [conn |-> "none", last |-> NoCall]

\* the object after a connect() that succeeded
StoreOpen ==
    [conn |-> "open", last |-> [NoCall EXCEPT !.op = "connect", !.result = "True"]]

\* a variable of the environment: absent, or set to a text
Unset == [set |-> FALSE, value |-> <<>>]

SetTo(value) == [set |-> TRUE, value |-> value]

\* the environment of a configured installation
ValidEnv == [BOT_TOKEN |-> SetTo(<<"t">>), OWNER_USER_ID |-> SetTo(Str(OWNER_USER_ID))]

MainOff ==
    [pc |-> "off", run |-> 0, current_time |-> 0, downtime |-> 0,
     saw |-> "nothing", env |-> ValidEnv]

TimerNone == [pc |-> "none", current_time |-> 0, left |-> 0]

WdogNone ==
    [pc |-> "none", left |-> 0, sent |-> FALSE]

FanNone ==
    [pc |-> "none", downtime_str |-> "", users |-> <<>>, i |-> 0,
     attempts |-> <<>>, outcomes |-> <<>>, left |-> 0, waited |-> 0]

ProbeIdle == [pc |-> "idle", elapsed |-> 0, log |-> <<>>, verdict |-> "none"]

TelegramIds == 1..MaxUsers

MainAlive == main.pc \notin {"off", "dead", "exited"}

TimerRunning(r) == timerp[r].pc \in {"loop", "open", "write", "sleep"}

WdogRunning(r) == wdog[r].pc \in {"loop", "probing", "sleep"}

(***************************************************************************)
(* timer.get_downtime                                                      *)
(***************************************************************************)
\* a byte that is no UTF-8 text; every other element of the file's data is
\* an ASCII character
BadByte == "xFF"

\* open(..., "r", encoding="utf-8") and f.read(): the bytes decode or not
Decodes(data) == \A i \in 1..Len(data) : data[i] # BadByte

\* what the read of the file observed
Saw(data) ==
    IF data = <<>> THEN "empty"
    ELSE IF ParseInt(data).ok THEN "int"
    ELSE "garbage"

\* a subtraction with its operands the wrong way round
GetDowntimeSwapped(data, current_time) ==
    LET p == ParseInt(data)
    IN  IF p.ok THEN p.val - current_time ELSE 0

\* lines 55-63: int(saved_time), 0 on ValueError, else the difference
GetDowntimeOf(data, current_time) ==
    LET p == ParseInt(data)
    IN  IF p.ok THEN current_time - p.val ELSE 0

(***************************************************************************)
(* The directory: the methods of IMSADB in db.py, over the rows of the     *)
(* users table.  `ok` is FALSE when the statement raises aiosqlite.Error,  *)
(* which db_safe turns into the result False.                              *)
(***************************************************************************)
UserRow(telegram_id, name, role) ==
    [telegram_id |-> telegram_id, name |-> name, role |-> role]

HasUser(tbl, telegram_id) == \E k \in 1..Len(tbl) : tbl[k].telegram_id = telegram_id

\* get_user: the row, or False (found = FALSE) when there is none or on error
get_user(tbl, telegram_id, ok) ==
    IF ok /\ HasUser(tbl, telegram_id)
    THEN [found |-> TRUE,
          row |-> tbl[CHOOSE k \in 1..Len(tbl) : tbl[k].telegram_id = telegram_id]]
    ELSE [found |-> FALSE, row |-> UserRow(0, <<>>, "None")]

\* get_role: None when get_user gave a bool, else the role of the row
get_role(tbl, telegram_id, ok) ==
    LET user_info == get_user(tbl, telegram_id, ok)
    IN  IF ~user_info.found THEN "None" ELSE user_info.row.role

\* the value of self.get_role(telegram_id) as is_user and is_admin take it:
\* the call of an async def without await gives a coroutine object, which
\* is equal to no string
Unawaited(role) == "coroutine"

\* lines 210-223
is_user(tbl, telegram_id, ok) ==
    LET sender_role == Unawaited(get_role(tbl, telegram_id, ok))
    IN  sender_role \in {ROLE_ADMIN, ROLE_USER}

\* lines 225-237
is_admin(tbl, telegram_id, ok) ==
    LET sender_role == Unawaited(get_role(tbl, telegram_id, ok))
    IN  sender_role = ROLE_ADMIN

\* an insert whose result is True whatever the statement did
add_user_unchecked(tbl, telegram_id, name, role, ok) ==
    IF ok /\ ~HasUser(tbl, telegram_id)
    THEN [ok |-> TRUE, table |-> Append(tbl, UserRow(telegram_id, name, role))]
    ELSE [ok |-> TRUE, table |-> tbl]

\* add_user: INSERT and commit; telegram_id is UNIQUE, a second row with
\* the same id raises IntegrityError, an aiosqlite.Error
add_user(tbl, telegram_id, name, role, ok) ==
    IF ok /\ ~HasUser(tbl, telegram_id)
    THEN [ok |-> TRUE, table |-> Append(tbl, UserRow(telegram_id, name, role))]
    ELSE [ok |-> FALSE, table |-> tbl]

\* the rows of tbl without those of telegram_id, in order
RECURSIVE Without(_, _)
Without(tbl, telegram_id) ==
    IF tbl = <<>> THEN <<>>
    ELSE IF Head(tbl).telegram_id = telegram_id THEN Without(Tail(tbl), telegram_id)
    ELSE <<Head(tbl)>> \o Without(Tail(tbl), telegram_id)

\* delete_user: DELETE and commit; the result is cursor.rowcount > 0
delete_user(tbl, telegram_id, ok) ==
    IF ok /\ HasUser(tbl, telegram_id)
    THEN [ok |-> TRUE, table |-> Without(tbl, telegram_id)]
    ELSE [ok |-> FALSE, table |-> tbl]

\* lines 101-121: nothing to do when a row has the role admin, else the
\* owner's row is inserted; `fault` names the statement that fails
ensure_admin(tbl, fault) ==
    IF fault = "select" THEN [ok |-> FALSE, table |-> tbl]
    ELSE IF \E k \in 1..Len(tbl) : tbl[k].role = ROLE_ADMIN
    THEN [ok |-> TRUE, table |-> tbl]
    ELSE add_user(tbl, OWNER_USER_ID, OWNER_DEFAULT_USERNAME, ROLE_ADMIN,
                  fault # "insert")

\* lines 76-99: CREATE TABLE IF NOT EXISTS, then ensure_admin, whose result
\* is not looked at
init_db(tbl, fault) ==
    IF fault = "create" THEN [ok |-> FALSE, table |-> tbl]
    ELSE [ok |-> TRUE, table |-> ensure_admin(tbl, fault).table]

\* the method returns `result`, leaving the rows tbl
Returns(call, fault, result, tbl) ==
    /\ store' = [store EXCEPT !.last = [call EXCEPT !.fault = fault, !.result = result]]
    /\ table' = tbl

\* self.db() of lines 44-45 raises RuntimeError, which db_safe (line 21,
\* except aiosqlite.Error) lets through to the caller
RaisesNotConnected(call) ==
    /\ store' = [store EXCEPT !.last = [call EXCEPT !.raised = "RuntimeError"]]
    /\ table' = table

\* lines 48-62: when aiosqlite.connect raises, self._db keeps what it held
DbConnect(fault) ==
    /\ LET call == [NoCall EXCEPT !.op = "connect"]
           r == init_db(table, fault)
       IN  IF fault = "connect"
           THEN Returns(call, fault, "False", table)
           ELSE /\ store' = [conn |-> "open",
                             last |-> [call EXCEPT !.fault = fault, !.result = (IF r.ok THEN "True" ELSE "False")]]
                /\ table' = r.table
    /\ UNCHANGED <<now, net, file, written, main, timerp, wdog, fan, probe, chat>>

\* lines 64-74
DbClose ==
    /\ store.conn \in {"none", "open"}
    /\ LET call == [NoCall EXCEPT !.op = "close"]
       IN  IF store.conn = "none" THEN RaisesNotConnected(call)
           ELSE /\ store' = [conn |-> "closed", last |-> [call EXCEPT !.result = "True"]]
                /\ table' = table
    /\ UNCHANGED <<now, net, file, written, main, timerp, wdog, fan, probe, chat>>

DbInitDb(fault) ==
    /\ store.conn \in {"none", "open"}
    /\ LET call == [NoCall EXCEPT !.op = "init_db"]
           r == init_db(table, fault)
       IN  IF store.conn = "none" THEN RaisesNotConnected(call)
           ELSE Returns(call, fault, (IF r.ok THEN "True" ELSE "False"), r.table)
    /\ UNCHANGED <<now, net, file, written, main, timerp, wdog, fan, probe, chat>>

DbEnsureAdmin(fault) ==
    /\ store.conn \in {"none", "open"}
    /\ LET call == [NoCall EXCEPT !.op = "ensure_admin"]
           r == ensure_admin(table, fault)
       IN  IF store.conn = "none" THEN RaisesNotConnected(call)
           ELSE Returns(call, fault, (IF r.ok THEN "True" ELSE "False"), r.table)
    /\ UNCHANGED <<now, net, file, written, main, timerp, wdog, fan, probe, chat>>

\* lines 123-133: the rows, or False
DbGetAllUsers(fault) ==
    /\ store.conn \in {"none", "open"}
    /\ LET call == [NoCall EXCEPT !.op = "get_all_users"]
       IN  IF store.conn = "none" THEN RaisesNotConnected(call)
           ELSE IF fault = "select" THEN Returns(call, fault, "False", table)
           ELSE Returns(call, fault, "rows", table)
    /\ UNCHANGED <<now, net, file, written, main, timerp, wdog, fan, probe, chat>>

DbAddUser(telegram_id, name, role, fault) ==
    /\ store.conn \in {"none", "open"}
    /\ LET call == [NoCall EXCEPT !.op = "add_user", !.telegram_id = telegram_id,
                                  !.name = name, !.role = role]
           r == add_user(table, telegram_id, name, role, fault # "insert")
       IN  IF store.conn = "none" THEN RaisesNotConnected(call)
           ELSE Returns(call, fault, (IF r.ok THEN "True" ELSE "False"), r.table)
    /\ UNCHANGED <<now, net, file, written, main, timerp, wdog, fan, probe, chat>>

\* the row found is kept in name and role of the call
DbGetUser(telegram_id, fault) ==
    /\ store.conn \in {"none", "open"}
    /\ LET call == [NoCall EXCEPT !.op = "get_user", !.telegram_id = telegram_id]
           r == get_user(table, telegram_id, fault # "select")
       IN  IF store.conn = "none" THEN RaisesNotConnected(call)
           ELSE IF r.found
           THEN Returns([call EXCEPT !.name = r.row.name, !.role = r.row.role],
                        fault, "row", table)
           ELSE Returns(call, fault, "False", table)
    /\ UNCHANGED <<now, net, file, written, main, timerp, wdog, fan, probe, chat>>

DbDeleteUser(telegram_id, fault) ==
    /\ store.conn \in {"none", "open"}
    /\ LET call == [NoCall EXCEPT !.op = "delete_user", !.telegram_id = telegram_id]
           r == delete_user(table, telegram_id, fault # "delete")
       IN  IF store.conn = "none" THEN RaisesNotConnected(call)
           ELSE Returns(call, fault, (IF r.ok THEN "True" ELSE "False"), r.table)
    /\ UNCHANGED <<now, net, file, written, main, timerp, wdog, fan, probe, chat>>

(***************************************************************************)
(* The main process: main() and start_bot() of main.py.                    *)
(***************************************************************************)
\* the supervisor (or the operator) starts the program
MainStartUpTo(limit) ==
    /\ main.pc \in {"off", "dead", "exited"}
    /\ main.run < limit
    /\ main' = [MainOff EXCEPT !.pc = "wait_for_network", !.run = main.run + 1]
    /\ fan' = FanNone
    /\ store' = StoreNew
    /\ UNCHANGED <<now, net, file, written, timerp, wdog, table, probe, chat>>

MainStart == MainStartUpTo(MaxRuns)

\* a check that lets the empty text through
getenv_strict_nonempty_unchecked(env, var_name) ==
    LET value == env[var_name]
    IN  [exit |-> ~value.set, value |-> value.value]

\* env_vars.getenv_strict: sys_exit(1) when the variable is absent or empty
getenv_strict(env, var_name) ==
    LET value == env[var_name]
    IN  [exit |-> ~value.set \/ value.value = <<>>, value |-> value.value]

\* the imports of main.py up to line 31: db imports env_vars, whose lines
\* 30-31 read BOT_TOKEN, then OWNER_USER_ID, and int() the latter; SystemExit
\* or ValueError ends the interpreter before main() is called
MainImport ==
    /\ main.pc = "import"
    /\ LET token == getenv_strict(main.env, "BOT_TOKEN")
           owner == getenv_strict(main.env, "OWNER_USER_ID")
       IN  main' = IF token.exit \/ owner.exit \/ ~ParseInt(owner.value).ok
                   THEN [main EXCEPT !.pc = "exited"]
                   ELSE [main EXCEPT !.pc = "wait_for_network"]
    /\ UNCHANGED <<now, net, file, written, timerp, wdog, fan, table, probe, chat, store>>

\* wait_for_network() returns once network_available() has returned True
MainWaitNet ==
    /\ main.pc = "wait_for_network"
    /\ net
    /\ main' = [main EXCEPT !.pc = "get_downtime"]
    /\ UNCHANGED <<now, net, file, written, timerp, wdog, fan, table, probe, chat, store>>

\* get_downtime, lines 44-49: the existence check and the reading of the clock
MainGetTime ==
    /\ main.pc = "get_downtime"
    /\ main' = IF ~file.exists
               THEN [main EXCEPT !.pc = "start_timer", !.downtime = 0,
                                 !.saw = "absent"]
               ELSE [main EXCEPT !.pc = "read_file",
                                 !.current_time = Round(now)]
    /\ UNCHANGED <<now, net, file, written, timerp, wdog, fan, table, probe, chat, store>>

\* get_downtime, lines 52-63: the read, the parse and the difference.  The
\* read (lines 52-53) is outside the try of lines 56-60: when the bytes do
\* not decode, UnicodeDecodeError leaves get_downtime and main(), and the
\* process ends before it has started a child
MainReadFile ==
    /\ main.pc = "read_file"
    /\ main' = IF Decodes(file.data)
               THEN [main EXCEPT !.pc = "start_timer",
                                 !.current_time = 0,
                                 !.saw = Saw(file.data),
                                 !.downtime = GetDowntimeOf(file.data, main.current_time)]
               ELSE [main EXCEPT !.pc = "exited",
                                 !.current_time = 0,
                                 !.saw = "undecodable"]
    /\ UNCHANGED <<now, net, file, written, timerp, wdog, fan, table, probe, chat, store>>

\* a main() that starts the Heartbeat Writer before it has read the file
MainStartTimerEarly ==
    /\ main.pc \in {"get_downtime", "start_timer"}
    /\ main.pc = "get_downtime" => timerp[main.run].pc = "none"
    /\ timerp' = IF timerp[main.run].pc = "none"
                 THEN [timerp EXCEPT ![main.run] = [TimerNone EXCEPT !.pc = "loop"]]
                 ELSE timerp
    /\ main' = IF main.pc = "start_timer" THEN [main EXCEPT !.pc = "start_tracker"]
               ELSE main
    /\ UNCHANGED <<now, net, file, written, wdog, fan, table, probe, chat, store>>

\* start_timer(): a daemon Process running timer()
MainStartTimer ==
    /\ main.pc = "start_timer"
    /\ timerp' = [timerp EXCEPT ![main.run] = [TimerNone EXCEPT !.pc = "loop"]]
    /\ main' = [main EXCEPT !.pc = "start_tracker"]
    /\ UNCHANGED <<now, net, file, written, wdog, fan, table, probe, chat, store>>

\* start_network_tracker(getpid()): a daemon Process running network_tracker
MainStartTracker ==
    /\ main.pc = "start_tracker"
    /\ wdog' = [wdog EXCEPT ![main.run] = [WdogNone EXCEPT !.pc = "loop"]]
    /\ main' = [main EXCEPT !.pc = "start_bot"]
    /\ UNCHANGED <<now, net, file, written, timerp, fan, table, probe, chat, store>>

\* a threshold test that also notifies at exactly MIN_DOWNTIME
ShouldNotifyInclusive(downtime) == downtime >= MIN_DOWNTIME \/ downtime < 0

\* start_bot, line 475
ShouldNotify(downtime) == downtime > MIN_DOWNTIME \/ downtime < 0

\* start_bot up to start_polling: db.connect() of line 455, on a database
\* file in good order, then the fan-out task is created or not
MainStartBot ==
    /\ main.pc = "start_bot"
    /\ main' = [main EXCEPT !.pc = "polling"]
    /\ store' = StoreOpen
    /\ table' = init_db(table, "none").table
    /\ fan' = IF ShouldNotify(main.downtime)
              THEN [FanNone EXCEPT !.pc = "start"]
              ELSE FanNone
    /\ UNCHANGED <<now, net, file, written, timerp, wdog, probe, chat>>

\* the fan-out task is lost with the process that ran it
FanLost == IF fan.pc \in {"start", "fetch", "send", "sleep"}
           THEN [fan EXCEPT !.pc = "abandoned", !.left = 0, !.waited = 0]
           ELSE fan

\* start_bot raises or polling ends: the interpreter exits, and on exit
\* multiprocessing terminates the daemon children of this process
MainExit ==
    /\ main.pc \in {"start_bot", "polling"}
    /\ main' = [main EXCEPT !.pc = "exited"]
    /\ timerp' = [timerp EXCEPT ![main.run] = [TimerNone EXCEPT !.pc = "dead"]]
    /\ wdog' = [wdog EXCEPT ![main.run].pc = "dead", ![main.run].left = 0]
    /\ fan' = FanLost
    /\ store' = StoreNew
    /\ UNCHANGED <<now, net, file, written, table, probe, chat>>

(***************************************************************************)
(* The Notification Fan-out: notify_users_downtime of main.py.             *)
(***************************************************************************)
\* line 421
FanFormat ==
    /\ fan.pc = "start"
    /\ MainAlive
    /\ fan' = [fan EXCEPT !.pc = "fetch",
                          !.downtime_str = format_seconds(main.downtime)]
    /\ UNCHANGED <<now, net, file, written, main, timerp, wdog, table, probe, chat, store>>

\* the users table as get_all_users returns it, or its failure (False)
Row(t) == [telegram_id |-> t, name |-> "name", role |-> "user"]

\* lines 423-430: the rows are fetched once; on failure the task returns
FanFetch ==
    /\ fan.pc = "fetch"
    /\ MainAlive
    /\ \/ fan' = [fan EXCEPT !.pc = IF table = <<>> THEN "done" ELSE "send",
                             !.users = [k \in 1..Len(table) |-> table[k].telegram_id],
                             !.i = 1]
       \/ fan' = [fan EXCEPT !.pc = "done"]
    /\ UNCHANGED <<now, net, file, written, main, timerp, wdog, table, probe, chat, store>>

SendOutcomes == {"ok", "forbidden", "error"}

\* an except clause that lets TelegramForbiddenError through as well
AfterSendUncaught(outcome) == IF outcome = "ok" THEN "sleep" ELSE "aborted"

\* lines 433-446: TelegramForbiddenError is caught and logged; any other
\* exception of send_message leaves the loop and ends the task
AfterSend(outcome) == IF outcome = "error" THEN "aborted" ELSE "sleep"

\* a sleep placed inside the try: skipped when send_message raises
SleepAfterOkOnly(outcome) ==
    IF outcome = "ok" THEN DOWNTIME_NOTIFICATION_TIMEOUT ELSE 0

\* line 446: the sleep follows the try statement, it is reached after a
\* send that returned and after one whose exception was caught alike
SleepAfter(outcome) == DOWNTIME_NOTIFICATION_TIMEOUT

\* lines 432-446: one send_message to users[i], with its outcome; `waited`
\* is the time since this attempt, `left` what remains of the sleep
FanSend(outcome) ==
    /\ fan.pc = "send"
    /\ MainAlive
    /\ fan' = [fan EXCEPT !.pc = AfterSend(outcome),
                          !.attempts = Append(@, fan.users[fan.i]),
                          !.outcomes = Append(@, outcome),
                          !.left = IF AfterSend(outcome) = "sleep"
                                   THEN SleepAfter(outcome) ELSE 0,
                          !.waited = 0]
    /\ UNCHANGED <<now, net, file, written, main, timerp, wdog, table, probe, chat, store>>

FanRunning == fan.pc \in {"start", "fetch", "send", "sleep"}

\* the clock of the event loop advances by half the throttle interval
FanTime ==
    /\ FanRunning
    /\ MainAlive
    /\ fan.left > 0 \/ fan.waited < DOWNTIME_NOTIFICATION_TIMEOUT
    /\ LET step == DOWNTIME_NOTIFICATION_TIMEOUT \div 2
           sum == fan.waited + step
       IN  fan' = [fan EXCEPT
                     !.left = IF fan.left > step THEN fan.left - step ELSE 0,
                     !.waited = IF sum < DOWNTIME_NOTIFICATION_TIMEOUT THEN sum
                                ELSE DOWNTIME_NOTIFICATION_TIMEOUT]
    /\ UNCHANGED <<now, net, file, written, main, timerp, wdog, table, probe, chat, store>>

\* line 446 is over, and the next turn of the for loop
FanSleep ==
    /\ fan.pc = "sleep"
    /\ fan.left = 0
    /\ MainAlive
    /\ fan' = [fan EXCEPT !.pc = IF fan.i < Len(fan.users) THEN "send" ELSE "done",
                          !.i = fan.i + 1]
    /\ UNCHANGED <<now, net, file, written, main, timerp, wdog, table, probe, chat, store>>

(***************************************************************************)
(* The clock and the network.  Sleeps and budgets are counted down in      *)
(* ticks.  The clock reads MaxTick from MaxTick on: the horizon stands for *)
(* every later time, and waits keep running out there.                     *)
(***************************************************************************)
Pred(n) == IF n > 0 THEN n - 1 ELSE 0

\* a probe whose next connection attempt succeeds: the attempt is made at
\* once, no tick passes before it
AttemptDue(r) == wdog[r].pc = "probing" /\ wdog[r].left > 0 /\ net

Tick ==
    /\ \/ now < MaxTick
       \/ \E r \in RunIds : timerp[r].left > 0 \/ wdog[r].left > 0
    /\ ~\E r \in RunIds : AttemptDue(r)
    /\ now' = IF now < MaxTick THEN now + 1 ELSE now
    /\ timerp' = [r \in RunIds |-> [timerp[r] EXCEPT !.left = Pred(@)]]
    /\ wdog' = [r \in RunIds |-> [wdog[r] EXCEPT !.left = Pred(@)]]
    /\ UNCHANGED <<net, file, written, main, fan, table, probe, chat, store>>

NetChange ==
    /\ net' = ~net
    /\ UNCHANGED <<now, file, written, main, timerp, wdog, fan, table, probe, chat, store>>

(***************************************************************************)
(* The Heartbeat Writer: timer() of timer.py, one process per start.       *)
(***************************************************************************)
\* line 17
TimerGetTime(r) ==
    /\ timerp[r].pc = "loop"
    /\ timerp' = [timerp EXCEPT ![r].pc = "open", ![r].current_time = Round(now)]
    /\ UNCHANGED <<now, net, file, written, main, wdog, fan, table, probe, chat, store>>

\* line 20: open(TIMER_FILEPATH, "w") creates the file or truncates it
TimerOpen(r) ==
    /\ timerp[r].pc = "open"
    /\ file' = [exists |-> TRUE, data |-> <<>>]
    /\ written' = NoStamp
    /\ timerp' = [timerp EXCEPT ![r].pc = "write"]
    /\ UNCHANGED <<now, net, main, wdog, fan, table, probe, chat, store>>

\* the bytes of `text` written at offset 0 over `data`
WriteAtStart(data, text) ==
    IF Len(text) >= Len(data) THEN text
    ELSE text \o SubSeq(data, Len(text) + 1, Len(data))

\* lines 21-26: write, flush, fsync, close, and the sleep begins
TimerWrite(r) ==
    /\ timerp[r].pc = "write"
    /\ LET text == Str(timerp[r].current_time)
           data == WriteAtStart(file.data, text)
       IN  /\ file' = [exists |-> TRUE, data |-> data]
           /\ written' = IF data = text THEN Stamp(timerp[r].current_time)
                         ELSE NoStamp
    /\ timerp' = [timerp EXCEPT ![r] = [pc |-> "sleep", current_time |-> 0,
                                        left |-> Ticks(TIMER_TIMEOUT)]]
    /\ UNCHANGED <<now, net, main, wdog, fan, table, probe, chat, store>>

\* line 26: sleep(TIMER_TIMEOUT) is over
TimerWake(r) ==
    /\ timerp[r].pc = "sleep"
    /\ timerp[r].left = 0
    /\ timerp' = [timerp EXCEPT ![r].pc = "loop"]
    /\ UNCHANGED <<now, net, file, written, main, wdog, fan, table, probe, chat, store>>

(***************************************************************************)
(* The Network Watchdog: network_tracker() of network_tracker.py, with     *)
(* network_available() of helpers.py.                                      *)
(***************************************************************************)
\* a signal the main process survives
KillIgnored(r) == main

\* line 23: kill(main_pid, SIGKILL) ends the process with that pid, and it
\* alone: its children are not signalled
KillEffect(r) ==
    IF main.run = r /\ MainAlive THEN [main EXCEPT !.pc = "dead"] ELSE main

\* network_available, line 113: start_time = time()
WdProbeStart(r) ==
    /\ wdog[r].pc = "loop"
    /\ wdog' = [wdog EXCEPT ![r].pc = "probing",
                            ![r].left = Ticks(NETWORK_CHECK_MAX_WAIT)]
    /\ UNCHANGED <<now, net, file, written, main, timerp, fan, table, probe, chat, store>>

\* a watchdog whose test of the verdict is inverted: it kills when the
\* probe reports available
WdProbeOkKills(r) ==
    /\ wdog[r].pc = "probing"
    /\ wdog[r].left > 0
    /\ net
    /\ main' = KillEffect(r)
    /\ fan' = IF main.run = r /\ MainAlive THEN FanLost ELSE fan
    /\ wdog' = [wdog EXCEPT ![r].pc = "sleep",
                            ![r].left = Ticks(NETWORK_TRACKER_TIMEOUT)]
    /\ UNCHANGED <<now, net, file, written, timerp, table, probe, chat, store>>

\* network_available, lines 114-118: a connection succeeds within the budget;
\* the watchdog sleeps (network_tracker line 25)
WdProbeOk(r) ==
    /\ wdog[r].pc = "probing"
    /\ wdog[r].left > 0
    /\ net
    /\ wdog' = [wdog EXCEPT ![r].pc = "sleep",
                            ![r].left = Ticks(NETWORK_TRACKER_TIMEOUT)]
    /\ UNCHANGED <<now, net, file, written, main, timerp, fan, table, probe, chat, store>>

\* network_available, lines 114 and 123-124: the budget is spent, False;
\* network_tracker lines 19-25: kill(main_pid, SIGKILL), then the sleep
WdProbeFail(r) ==
    /\ wdog[r].pc = "probing"
    /\ wdog[r].left = 0
    /\ main' = KillEffect(r)
    /\ fan' = IF main.run = r /\ MainAlive THEN FanLost ELSE fan
    /\ \/ wdog' = [wdog EXCEPT ![r] = [pc |-> "sleep", sent |-> TRUE,
                                       left |-> Ticks(NETWORK_TRACKER_TIMEOUT)]]
       \/ /\ ~(main.run = r /\ MainAlive)      \* no such process: kill raises
          /\ wdog' = [wdog EXCEPT ![r].pc = "dead"]
    /\ store' = IF main.run = r /\ MainAlive THEN StoreNew ELSE store
    /\ UNCHANGED <<now, net, file, written, timerp, table, probe, chat>>

\* line 25: sleep(NETWORK_TRACKER_TIMEOUT) is over
WdWake(r) ==
    /\ wdog[r].pc = "sleep"
    /\ wdog[r].left = 0
    /\ wdog' = [wdog EXCEPT ![r].pc = "loop"]
    /\ UNCHANGED <<now, net, file, written, main, timerp, fan, table, probe, chat, store>>

(***************************************************************************)
(* The router of main.py.  A message is [from, date, cmd, text]: from is   *)
(* the sender's id (NoUser when from_user is None), date the whole second  *)
(* Telegram stamped it with, cmd the command it begins with ("" if none),  *)
(* text its characters.  A handler works on the context of one update:     *)
(* the conversation state and data of the sender, the table, the replies   *)
(* sent and the handler bodies entered.  The definitions named after the   *)
(* handlers are their bodies; their decorators are the predicates          *)
(* skip_downtime, require_user, only_for_registered and only_for_admin,    *)
(* TRUE when the wrapper returns without calling the function it wraps.    *)
(***************************************************************************)
NoUser == 0

\* the data of a conversation: the keys name and telegram_id when they are
\* set; dialog_name and dialog_telegram_id record that the value was stored
\* since the last add_user command
NoData == [has_name |-> FALSE, name |-> <<>>, has_telegram_id |-> FALSE,
           telegram_id |-> 0, dialog_name |-> FALSE, dialog_telegram_id |-> FALSE]

NoMessage == [from |-> NoUser, date |-> 0, cmd |-> "", text |-> <<>>]

\* line 51, bot_start_time = time(), in ticks; MemoryStorage starts empty
ChatAt(bot_start_time) ==
    [start |-> bot_start_time,
     state |-> [t \in TelegramIds |-> "none"],
     data |-> [t \in TelegramIds |-> NoData],
     replies |-> <<>>, ran |-> <<>>, last |-> NoMessage]

\* message.answer(render_template(template, ...))
Answer(c, template) == [c EXCEPT !.replies = Append(@, template)]

\* the body of a handler begins
Enter(c, handler) == [c EXCEPT !.ran = Append(@, handler)]

\* a comparison that lets through the messages of the second before the start
skip_downtime_with_slack(message, c) == Ticks(message.date + 1) < c.start

\* lines 68-77: message.date.timestamp() < bot_start_time
skip_downtime(message, c) == Ticks(message.date) < c.start

\* lines 80-90
require_user(message) == message.from = NoUser

\* lines 93-107
only_for_registered(message, c) ==
    require_user(message) \/ is_user(c.table, message.from, c.ok) = FALSE

\* an admission check that lets every sender with a user object in
only_for_admin_unchecked(message, c) == require_user(message)

\* lines 110-122
only_for_admin(message, c) ==
    require_user(message) \/ is_admin(c.table, message.from, c.ok) = FALSE

\* lines 128-132: state.clear() drops the state and the data
command_cancel(message, c) ==
    Answer([Enter(c, "command_cancel") EXCEPT !.state = "none", !.data = NoData],
           "cancel.html")

\* command_cancel(message, state) as the other handlers call it: the
\* decorated function of lines 125-127
command_cancel_decorated(message, c) ==
    IF skip_downtime(message, c) \/ only_for_admin(message, c) THEN c
    ELSE command_cancel(message, c)

\* lines 137-142; the assert of line 139 fails when from_user is None
command_id_handler(message, c) ==
    IF message.from = NoUser THEN c
    ELSE Answer(Enter(c, "command_id_handler"), "id.html")

\* lines 164-202
command_help_handler(message, c) ==
    IF message.from = NoUser THEN c
    ELSE LET c0 == Enter(c, "command_help_handler")
         IN  IF is_admin(c0.table, message.from, c0.ok)
             THEN Answer(c0, "help_admin.html")
             ELSE IF is_user(c0.table, message.from, c0.ok)
             THEN Answer(c0, "help_user.html")
             ELSE Answer(c0, "help_unauthorized.html")

\* lines 147-159: the greeting, then the decorated command_help_handler
command_start_handler(message, c) ==
    IF message.from = NoUser THEN c
    ELSE LET c0 == Answer(Enter(c, "command_start_handler"), "greeting.html")
         IN  IF skip_downtime(message, c0) THEN c0
             ELSE command_help_handler(message, c0)

\* lines 208-220: get_uptime() gives None when it fails
command_check_handler(message, c) ==
    LET c0 == Enter(c, "command_check_handler")
    IN  IF ~c0.ok THEN Answer(c0, "error.html: Failed to get server uptime")
        ELSE Answer(c0, "check.html")

\* lines 226-238: on failure the error is rendered and not sent
command_getusers_handler(message, c) ==
    LET c0 == Enter(c, "command_getusers_handler")
    IN  IF ~c0.ok THEN c0 ELSE Answer(c0, "getusers.html")

\* lines 244-251
command_deluser_handler(message, c) ==
    [Answer(Enter(c, "command_deluser_handler"), "deluser_telegram_id.html")
        EXCEPT !.state = "deluser_telegram_id"]

\* lines 257-285: on success the final message, the state is left as it is
command_deluser_telegram_id_handler(message, c) ==
    LET c0 == Enter(c, "command_deluser_telegram_id_handler")
        parsed == ParseInt(message.text)
        result == delete_user(c0.table, parsed.val, c0.ok)
    IN  IF ~parsed.ok
        THEN command_cancel_decorated(message,
                 Answer(c0, "error.html: Incorrect Telegram ID"))
        ELSE IF result.ok = FALSE
        THEN command_cancel_decorated(message,
                 Answer(c0, "error.html: Failed to delete user"))
        ELSE Answer([c0 EXCEPT !.table = result.table], "deluser_final.html")

\* lines 291-298
command_adduser_handler(message, c) ==
    [Answer(Enter(c, "command_adduser_handler"), "adduser_name.html")
        EXCEPT !.state = "adduser_name",
               !.data.dialog_name = FALSE, !.data.dialog_telegram_id = FALSE]

\* lines 304-327
command_adduser_name_handler(message, c) ==
    LET c0 == Enter(c, "command_adduser_name_handler")
        name == message.text
    IN  IF ~is_valid_string(name)
        THEN command_cancel_decorated(message, Answer(c0, "error.html: Incorrect name"))
        ELSE [Answer([c0 EXCEPT !.data.has_name = TRUE, !.data.name = name,
                                !.data.dialog_name = TRUE],
                     "adduser_telegram_id.html")
                 EXCEPT !.state = "adduser_telegram_id"]

\* a telegram-id step that inserts the row at once, with the role user
command_adduser_telegram_id_eager(message, c) ==
    LET c0 == Enter(c, "command_adduser_telegram_id_handler")
        parsed == ParseInt(message.text)
        result == add_user(c0.table, parsed.val, c0.data.name, ROLE_USER, c0.ok)
    IN  IF ~parsed.ok
        THEN command_cancel_decorated(message,
                 Answer(c0, "error.html: Incorrect Telegram ID"))
        ELSE [Answer([c0 EXCEPT !.data.has_telegram_id = TRUE,
                                !.data.telegram_id = parsed.val,
                                !.data.dialog_telegram_id = TRUE,
                                !.table = result.table],
                     "adduser_role.html")
                 EXCEPT !.state = "adduser_role"]

\* lines 333-358
command_adduser_telegram_id_handler(message, c) ==
    LET c0 == Enter(c, "command_adduser_telegram_id_handler")
        parsed == ParseInt(message.text)
    IN  IF ~parsed.ok
        THEN command_cancel_decorated(message,
                 Answer(c0, "error.html: Incorrect Telegram ID"))
        ELSE [Answer([c0 EXCEPT !.data.has_telegram_id = TRUE,
                                !.data.telegram_id = parsed.val,
                                !.data.dialog_telegram_id = TRUE],
                     "adduser_role.html")
                 EXCEPT !.state = "adduser_role"]

\* str(message.text) as one of (ROLE_ADMIN, ROLE_USER), or "" for neither
RoleOfText(text) ==
    IF text = <<"a", "d", "m", "i", "n">> THEN ROLE_ADMIN
    ELSE IF text = <<"u", "s", "e", "r">> THEN ROLE_USER
    ELSE ""

\* lines 364-400: the result of db.add_user is not looked at; int("None")
\* of line 382 raises when no telegram_id was stored
command_adduser_role_handler(message, c) ==
    LET c0 == Enter(c, "command_adduser_role_handler")
        role == RoleOfText(message.text)
        result == add_user(c0.table, c0.data.telegram_id, c0.data.name, role, c0.ok)
    IN  IF role \notin {ROLE_ADMIN, ROLE_USER}
        THEN command_cancel_decorated(message, Answer(c0, "error.html: Incorrect role"))
        ELSE IF ~c0.data.has_telegram_id THEN c0
        ELSE [Answer([c0 EXCEPT !.table = result.table], "adduser_final.html")
                 EXCEPT !.state = "none", !.data = NoData]

\* lines 406-410
unknown_message_handler(message, c) ==
    Answer(Enter(c, "unknown_message_handler"), "unknown.html")

\* the handlers in the order of their registration: the first whose filter
\* (a command of constants.py lines 21-27, a conversation state, or none)
\* passes takes the message
HandlerFor(message, state) ==
    IF message.cmd = "cancel" THEN "command_cancel"
    ELSE IF message.cmd = "id" THEN "command_id_handler"
    ELSE IF message.cmd = "start" THEN "command_start_handler"
    ELSE IF message.cmd = "help" THEN "command_help_handler"
    ELSE IF message.cmd = "check" THEN "command_check_handler"
    ELSE IF message.cmd = "get_users" THEN "command_getusers_handler"
    ELSE IF message.cmd = "delete_user" THEN "command_deluser_handler"
    ELSE IF state = "deluser_telegram_id" THEN "command_deluser_telegram_id_handler"
    ELSE IF message.cmd = "add_user" THEN "command_adduser_handler"
    ELSE IF state = "adduser_name" THEN "command_adduser_name_handler"
    ELSE IF state = "adduser_telegram_id" THEN "command_adduser_telegram_id_handler"
    ELSE IF state = "adduser_role" THEN "command_adduser_role_handler"
    ELSE "unknown_message_handler"

\* the handlers decorated with @only_for_admin
AdminHandlers ==
    {"command_cancel", "command_getusers_handler", "command_deluser_handler",
     "command_deluser_telegram_id_handler", "command_adduser_handler",
     "command_adduser_name_handler", "command_adduser_telegram_id_handler",
     "command_adduser_role_handler"}

\* the decorators of `handler` return before its body: @skip_downtime on
\* every handler, then @only_for_admin, @only_for_registered or @require_user
Dropped(handler, message, c) ==
    \/ skip_downtime(message, c)
    \/ handler \in AdminHandlers /\ only_for_admin(message, c)
    \/ handler = "command_check_handler" /\ only_for_registered(message, c)
    \/ handler = "unknown_message_handler" /\ require_user(message)

\* the body of `handler`
Body(handler, message, c) ==
    CASE handler = "command_cancel" -> command_cancel(message, c)
      [] handler = "command_id_handler" -> command_id_handler(message, c)
      [] handler = "command_start_handler" -> command_start_handler(message, c)
      [] handler = "command_help_handler" -> command_help_handler(message, c)
      [] handler = "command_check_handler" -> command_check_handler(message, c)
      [] handler = "command_getusers_handler" -> command_getusers_handler(message, c)
      [] handler = "command_deluser_handler" -> command_deluser_handler(message, c)
      [] handler = "command_deluser_telegram_id_handler" ->
            command_deluser_telegram_id_handler(message, c)
      [] handler = "command_adduser_handler" -> command_adduser_handler(message, c)
      [] handler = "command_adduser_name_handler" ->
            command_adduser_name_handler(message, c)
      [] handler = "command_adduser_telegram_id_handler" ->
            command_adduser_telegram_id_handler(message, c)
      [] handler = "command_adduser_role_handler" ->
            command_adduser_role_handler(message, c)
      [] OTHER -> unknown_message_handler(message, c)

\* the context of the update `message`
Ctx(message, ok) ==
    [start |-> chat.start, ok |-> ok,
     state |-> IF message.from \in TelegramIds THEN chat.state[message.from] ELSE "none",
     data |-> IF message.from \in TelegramIds THEN chat.data[message.from] ELSE NoData,
     table |-> table, replies |-> <<>>, ran |-> <<>>]

\* what the handling of `message` leaves behind
Handled(message, c) ==
    /\ chat' = [start |-> chat.start,
                state |-> [t \in TelegramIds |->
                             IF t = message.from THEN c.state ELSE chat.state[t]],
                data |-> [t \in TelegramIds |->
                             IF t = message.from THEN c.data ELSE chat.data[t]],
                replies |-> c.replies, ran |-> c.ran, last |-> message]
    /\ table' = c.table

\* a polling that begins only once the fan-out has returned
DeliverAfterFanout(message, ok) ==
    /\ main.pc = "polling"
    /\ fan.pc \notin {"start", "fetch", "send", "sleep"}
    /\ LET c == Ctx(message, ok)
           handler == HandlerFor(message, c.state)
       IN  Handled(message, IF Dropped(handler, message, c) THEN c
                            ELSE Body(handler, message, c))
    /\ UNCHANGED <<now, net, file, written, main, timerp, wdog, fan, probe, store>>

\* dp.start_polling: one update is taken, routed to its handler and handled
Deliver(message, ok) ==
    /\ main.pc = "polling"
    /\ LET c == Ctx(message, ok)
           handler == HandlerFor(message, c.state)
       IN  Handled(message, IF Dropped(handler, message, c) THEN c
                            ELSE Body(handler, message, c))
    /\ UNCHANGED <<now, net, file, written, main, timerp, wdog, fan, probe, store>>

\* the body of a dialog handler is entered for the message routed to it
RunDialogBody(message, ok) ==
    /\ main.pc = "polling"
    /\ LET c == Ctx(message, ok)
           handler == HandlerFor(message, c.state)
       IN  /\ handler \in AdminHandlers
           /\ Handled(message, Body(handler, message, c))
    /\ UNCHANGED <<now, net, file, written, main, timerp, wdog, fan, probe, store>>

(***************************************************************************)
(* network_available() of helpers.py, attempt by attempt: the model of one *)
(* call, over every course the connection attempts can take.               *)
(***************************************************************************)
\* socket.create_connection with timeout=NETWORK_CHECK_TIMEOUT: it connects,
\* or raises at once or later, at the timeout at the latest; times in ticks
AttemptOutcomes ==
    {[ok |-> TRUE, took |-> t] : t \in 0..(Ticks(NETWORK_CHECK_TIMEOUT) - 1)}
    \cup {[ok |-> FALSE, took |-> t] : t \in 0..Ticks(NETWORK_CHECK_TIMEOUT)}

\* a loop that gives up after its first failed attempt
BudgetLeftFirstOnly(elapsed, log) == log = <<>>

\* line 114: time() - start_time < NETWORK_CHECK_MAX_WAIT
BudgetLeft(elapsed, log) == elapsed < Ticks(NETWORK_CHECK_MAX_WAIT)

\* line 113: start_time = time()
ProbeCall ==
    /\ probe.pc = "idle"
    /\ probe' = [ProbeIdle EXCEPT !.pc = "loop"]
    /\ UNCHANGED <<now, net, file, written, main, timerp, wdog, fan, table, chat, store>>

\* lines 114-121: one turn of the loop; a connection returns True, an
\* exception is logged and `continue` goes back to the test of line 114
ProbeAttempt(a) ==
    /\ probe.pc = "loop"
    /\ BudgetLeft(probe.elapsed, probe.log)
    /\ Len(probe.log) < MaxAttempts
    /\ probe' = [pc |-> IF a.ok THEN "returned" ELSE "loop",
                 elapsed |-> probe.elapsed + a.took,
                 log |-> Append(probe.log, a),
                 verdict |-> IF a.ok THEN "available" ELSE "none"]
    /\ UNCHANGED <<now, net, file, written, main, timerp, wdog, fan, table, chat, store>>

\* lines 114 and 123-124: the budget is spent, return False
ProbeGiveUp ==
    /\ probe.pc = "loop"
    /\ ~BudgetLeft(probe.elapsed, probe.log)
    /\ probe' = [probe EXCEPT !.pc = "returned", !.verdict = "unavailable"]
    /\ UNCHANGED <<now, net, file, written, main, timerp, wdog, fan, table, chat, store>>

InitProbe ==
    /\ now = 0
    /\ net \in BOOLEAN
    /\ \E fw \in {<<NoFile, NoStamp>>, <<[exists |-> TRUE, data |-> Str(0)], Stamp(0)>>} :
          file = fw[1] /\ written = fw[2]
    /\ main \in {[MainOff EXCEPT !.pc = "wait_for_network", !.run = 1],
                  [MainOff EXCEPT !.pc = "polling", !.run = 1, !.saw = "absent"]}
    /\ timerp = [r \in RunIds |-> TimerNone]
    /\ wdog = [r \in RunIds |-> WdogNone]
    /\ fan = FanNone
    /\ table = <<>>
    /\ probe = ProbeIdle
    /\ store = IF main.pc = "polling" THEN StoreOpen ELSE StoreNew
    /\ chat = ChatAt(0)

NextProbe ==
    \/ ProbeCall
    \/ \E a \in AttemptOutcomes : ProbeAttempt(a)
    \/ ProbeGiveUp

SpecProbe == InitProbe /\ [][NextProbe]_vars

\* C15: one call of network_available ends with one verdict: unavailable
\* only when every attempt made has failed and the whole budget is spent,
\* available with the first attempt that succeeds; and the call changes
\* nothing but its own position.
AllFailed(log) == \A k \in 1..Len(log) : ~log[k].ok

ProbeVerdict ==
    /\ probe.pc = "returned" <=> probe.verdict \in {"available", "unavailable"}
    /\ probe.pc # "returned" => probe.verdict = "none" /\ AllFailed(probe.log)
    /\ probe.verdict = "unavailable" =>
          /\ AllFailed(probe.log)
          /\ probe.elapsed >= Ticks(NETWORK_CHECK_MAX_WAIT)
    /\ probe.verdict = "available" =>
          /\ probe.log # <<>>
          /\ probe.log[Len(probe.log)].ok
          /\ AllFailed(SubSeq(probe.log, 1, Len(probe.log) - 1))
          /\ probe.elapsed - probe.log[Len(probe.log)].took
                < Ticks(NETWORK_CHECK_MAX_WAIT)

ProbeFrame ==
    /\ UNCHANGED <<now, net, file, written, main, timerp, wdog, fan, table, chat, store>>
    /\ probe.pc = "returned" => probe' = probe

C15_WitnessAvailable ==
    /\ probe.verdict = "available"
    /\ Len(probe.log) = 2

(***************************************************************************)
(* The process model: the program from its first start, with the starts    *)
(* that follow a kill or an exit.                                          *)
(***************************************************************************)
Init ==
    /\ now = 0
    /\ net = TRUE
    /\ file = NoFile
    /\ written = NoStamp
    /\ main = MainOff
    /\ timerp = [r \in RunIds |-> TimerNone]
    /\ wdog = [r \in RunIds |-> WdogNone]
    /\ fan = FanNone
    /\ table = <<>>
    /\ probe = ProbeIdle
    /\ store = StoreNew
    /\ chat = ChatAt(0)

TimerStep(r) == TimerGetTime(r) \/ TimerOpen(r) \/ TimerWrite(r) \/ TimerWake(r)

WdogStep(r) == WdProbeStart(r) \/ WdProbeOk(r) \/ WdProbeFail(r) \/ WdWake(r)

MainStep ==
    \/ MainStart
    \/ MainWaitNet
    \/ MainGetTime
    \/ MainReadFile
    \/ MainStartTimer
    \/ MainStartTracker
    \/ MainStartBot
    \/ MainExit

Next ==
    \/ MainStep
    \/ \E r \in RunIds : TimerStep(r)
    \/ \E r \in RunIds : WdogStep(r)
    \/ Tick
    \/ NetChange

Spec == Init /\ [][Next]_vars

(***************************************************************************)
(* The model of the watched run: the same program, started at most         *)
(* MaxWatchedRuns times, on a machine where no process of an earlier boot  *)
(* is left and the heartbeat file and the database of that boot are.       *)
(***************************************************************************)
InitWatch ==
    /\ now = 0
    /\ net = TRUE
    /\ file = [exists |-> TRUE, data |-> Str(0)]
    /\ written = Stamp(0)
    /\ main = MainOff
    /\ timerp = [r \in RunIds |-> TimerNone]
    /\ wdog = [r \in RunIds |-> WdogNone]
    /\ fan = FanNone
    /\ table = <<UserRow(OWNER_USER_ID, OWNER_DEFAULT_USERNAME, ROLE_ADMIN)>>
    /\ probe = ProbeIdle
    /\ store = StoreNew
    /\ chat = ChatAt(0)

MainStartWatched == MainStartUpTo(MaxWatchedRuns)

NextWatch ==
    \/ MainStartWatched
    \/ MainWaitNet
    \/ MainGetTime
    \/ MainReadFile
    \/ MainStartTimer
    \/ MainStartTracker
    \/ MainStartBot
    \/ MainExit
    \/ \E r \in RunIds : TimerStep(r)
    \/ \E r \in RunIds : WdogStep(r)
    \/ Tick
    \/ NetChange

SpecWatch == InitWatch /\ [][NextWatch]_vars

\* the scheduler runs every process and time passes
FairWatch ==
    /\ SpecWatch
    /\ WF_vars(Tick)
    /\ \A r \in RunIds : WF_vars(WdogStep(r))

\* the main process started as run r is running
MainRunning(r) == main.run = r /\ MainAlive

\* the watchdog of run r leaves a probe that reported unavailable
ProbeFailed(r) ==
    /\ wdog[r].pc = "probing"
    /\ wdog[r].left = 0
    /\ wdog'[r].pc = "sleep"

\* C4: a probe that reports unavailable kills the running main process in
\* the same step (SIGKILL, no grace period), and while the watchdog of the
\* running main process runs, the main process ends unless the network is
\* reachable again.
C4_KillOnUnavailable ==
    /\ [][\A r \in RunIds : (ProbeFailed(r) /\ MainRunning(r)) => main'.pc = "dead"]_vars
    /\ (MainAlive /\ WdogRunning(main.run)) ~> (~MainAlive \/ net)

C4_Witness ==
    \E r \in RunIds : wdog[r].sent /\ main.run = r /\ main.pc = "dead" /\ ~net

\* C14: in every run the startup steps come in this order: the probe has
\* reported the network available, then the downtime is computed, once,
\* then the Heartbeat Writer and the Network Watchdog are started, then
\* serving begins; the writer of a run writes only after the read of that run.
BeforeDowntime == main.pc \in {"wait_for_network", "get_downtime", "read_file"}

StartupOrder ==
    /\ BeforeDowntime =>
          /\ main.saw = "nothing"
          /\ timerp[main.run].pc = "none"
          /\ wdog[main.run].pc = "none"
    /\ (MainAlive /\ ~BeforeDowntime) => main.saw # "nothing"
    /\ main.pc = "start_timer" =>
          timerp[main.run].pc = "none" /\ wdog[main.run].pc = "none"
    /\ main.pc = "start_tracker" =>
          timerp[main.run].pc # "none" /\ wdog[main.run].pc = "none"
    /\ main.pc \in {"start_bot", "polling"} =>
          timerp[main.run].pc # "none" /\ wdog[main.run].pc # "none"
    /\ (MainAlive /\ main.pc # "polling") => fan.pc = "none"

StartupStep ==
    /\ (main.pc = "wait_for_network" /\ main'.pc = "get_downtime") => net
    /\ (MainAlive /\ ~BeforeDowntime /\ main'.run = main.run) =>
          main'.downtime = main.downtime /\ main'.saw = main.saw
    /\ (file' # file /\ timerp'[main.run] # timerp[main.run]) =>
          main.saw # "nothing"

C14_StartupOrder == []StartupOrder /\ [][StartupStep]_vars

C14_Witness ==
    /\ main.pc = "polling"
    /\ main.saw = "int"
    /\ timerp[main.run].pc = "sleep"
    /\ wdog[main.run].pc = "sleep"
    /\ written.known /\ written.val > 0

\* C16: the watchdog sends the kill signal only in the step that ends a
\* probe with the verdict unavailable; a probe that reports available is
\* followed by the sleep of the fixed interval and by nothing else, and a
\* main process whose watchdog has had no failed probe is not killed.
ProbeSucceeded(r) ==
    /\ wdog[r].pc = "probing"
    /\ wdog[r].left > 0
    /\ wdog'[r].pc = "sleep"

KillOnlyAfterFailedProbe ==
    /\ \A r \in RunIds :
          /\ (wdog'[r].sent /\ ~wdog[r].sent) => ProbeFailed(r)
          /\ ProbeSucceeded(r) =>
                /\ net
                /\ wdog'[r].left = Ticks(NETWORK_TRACKER_TIMEOUT)
                /\ wdog'[r].sent = wdog[r].sent
                /\ main' = main
          /\ (wdog[r].pc = "sleep" /\ wdog'[r].pc \notin {"sleep", "dead"}) =>
                wdog[r].left = 0 /\ wdog'[r].pc = "loop"
    /\ (main'.pc = "dead" /\ main.pc # "dead") => ProbeFailed(main.run)

C16_KillOnlyAfterFailedProbe ==
    /\ [][KillOnlyAfterFailedProbe]_vars
    /\ [](main.pc = "dead" => wdog[main.run].sent)

C16_Witness ==
    /\ main.pc = "polling"
    /\ wdog[main.run].pc = "sleep"
    /\ wdog[main.run].left = Ticks(NETWORK_TRACKER_TIMEOUT)
    /\ ~wdog[main.run].sent
    /\ now = MaxTick

\* C5 as stated: after the watchdog has sent the kill signal it stops, it
\* makes no further probe.
C5_StopsAfterKill ==
    \A r \in RunIds : wdog[r].sent => wdog[r].pc # "probing"

\* C6 as stated: at most one Heartbeat Writer process is running at any time.
C6_SingleWriter ==
    Cardinality({r \in RunIds : TimerRunning(r)}) <= 1

\* C7 as stated: the heartbeat file is written only during the lifetime of
\* the main process that started the writer.
C7_WritesOnlyWhileMainAlive ==
    [][\A r \in RunIds :
          (timerp'[r] # timerp[r] /\ file' # file) => MainRunning(r)]_vars

\* C8 as stated: the read at startup observes no file or a complete
\* integer, never an empty or a partly written file.
C8_ReadNeverTruncated ==
    main.saw \in {"nothing", "absent", "int"}

(***************************************************************************)
(* The startup model: one start of the main process, from every heartbeat  *)
(* file and every time of the bounded sets.                                *)
(***************************************************************************)
CorruptData ==
    { <<>>, <<"a", "b", "c">>, <<"1", "2", "x">>, <<"-">>, <<"1", "_", "_", "2">>,
      <<"4", "2", " ", "7">>, <<"1", ".", "5">>, <<"1", BadByte>> }

StartupFiles ==
    {<<NoFile, NoStamp>>}
    \cup {<<[exists |-> TRUE, data |-> Str(v)], Stamp(v)>> : v \in 0..MaxStamp}
    \cup {<<[exists |-> TRUE, data |-> <<" ">> \o Str(v) \o <<"\n">>], Stamp(v)>> :
              v \in {0, MaxStamp}}
    \cup {<<[exists |-> TRUE, data |-> d], NoStamp>> : d \in CorruptData}

InitStartup ==
    /\ now \in 0..Ticks(MaxStamp)
    /\ net = TRUE
    /\ \E fw \in StartupFiles : file = fw[1] /\ written = fw[2]
    /\ main = [MainOff EXCEPT !.pc = "wait_for_network", !.run = 1]
    /\ timerp = [r \in RunIds |-> TimerNone]
    /\ wdog = [r \in RunIds |-> WdogNone]
    /\ fan = FanNone
    /\ table = <<>>
    /\ probe = ProbeIdle
    /\ store = StoreNew
    /\ chat = ChatAt(0)

NextStartup ==
    \/ MainWaitNet
    \/ MainGetTime
    \/ MainReadFile
    \/ MainStartTimer
    \/ MainStartTracker
    \/ MainStartBot
    \/ FanFormat

SpecStartup == InitStartup /\ [][NextStartup]_vars

\* get_downtime has returned
DowntimeComputed == main.pc \in {"start_timer", "start_tracker", "start_bot", "polling"}

WholeSecond(tick) == tick % 2 = 0

\* C1: when the heartbeat file holds the text of an integer v and get_downtime
\* is called at the whole second t, it parses the file and returns t - v
\* (d when t = v + d, a negative number when v is in the future).
C1_DowntimeIsDifference ==
    (DowntimeComputed /\ written.known /\ WholeSecond(now))
        => /\ main.saw = "int"
           /\ main.downtime = (now \div 2) - written.val

C1_Witness ==
    /\ DowntimeComputed
    /\ written.known /\ written.val = 43
    /\ WholeSecond(now)
    /\ main.downtime = 61

C1_WitnessFuture ==
    /\ DowntimeComputed
    /\ written.known /\ written.val = 101
    /\ WholeSecond(now)
    /\ main.downtime = -3

\* C2: once start_bot has reached polling, the fan-out task exists if and
\* only if the downtime is greater than MIN_DOWNTIME or negative; for
\* 0 <= d <= MIN_DOWNTIME it does not.
FanScheduled == fan.pc # "none"

C2_ScheduledIffOverThreshold ==
    main.pc = "polling"
        => /\ FanScheduled <=> (main.downtime > MIN_DOWNTIME \/ main.downtime < 0)
           /\ (0 <= main.downtime /\ main.downtime <= MIN_DOWNTIME) => ~FanScheduled

C2_Witness ==
    /\ main.pc = "polling"
    /\ main.downtime = MIN_DOWNTIME + 1
    /\ FanScheduled

C2_WitnessAtThreshold ==
    /\ main.pc = "polling"
    /\ main.downtime = MIN_DOWNTIME
    /\ ~FanScheduled

\* C3 as stated: with an unparsable or a future-dated heartbeat at startup
\* the fan-out is scheduled and the duration is rendered as the sentinel.
Unparsable == main.saw \in {"empty", "garbage"}

FutureDated == main.saw = "int" /\ written.known /\ written.val > Round(now)

FanFormatted == fan.pc \notin {"none", "start"}

C3_WitnessUnparsable ==
    /\ main.pc = "polling"
    /\ main.saw = "garbage"
    /\ ~FanScheduled

\* C13 as stated: when no valid heartbeat is readable (no file, or content
\* that is no integer, empty content included), get_downtime returns 0 and
\* no exception leaves it.
NoValidHeartbeat == main.saw \in {"absent", "empty", "garbage", "undecodable"}

C13_ZeroWithoutException ==
    NoValidHeartbeat => (DowntimeComputed /\ main.downtime = 0)

(***************************************************************************)
(* The fan-out model: the main process is polling and the task has just    *)
(* been created, over every users table of the bounded set.                *)
(***************************************************************************)
\* the tables: telegram_id is UNIQUE, rows come in rowid order
Tables ==
    UNION { { [k \in 1..n |-> Row(f[k])] :
                f \in { g \in [1..n -> TelegramIds] :
                          \A x, y \in 1..n : x # y => g[x] # g[y] } } :
            n \in 0..MaxUsers }

\* the updates that arrive while the fan-out runs
FanoutMessages ==
    {[from |-> 1, date |-> 0, cmd |-> "id", text |-> <<"/", "c">>],
     [from |-> 2, date |-> 0, cmd |-> "help", text |-> <<"/", "c">>],
     [from |-> 1, date |-> 0, cmd |-> "", text |-> <<"b", "o", "b">>]}

FanDowntimes == {-1, MIN_DOWNTIME + 1, 3661, 90000}

InitFanout ==
    /\ now = MaxTick
    /\ net = TRUE
    /\ file = NoFile
    /\ written = NoStamp
    /\ \E d \in FanDowntimes :
          main = [MainOff EXCEPT !.pc = "polling", !.run = 1, !.downtime = d,
                                 !.saw = "int"]
    /\ timerp = [r \in RunIds |-> IF r = 1 THEN [TimerNone EXCEPT !.pc = "loop"]
                                  ELSE TimerNone]
    /\ wdog = [r \in RunIds |-> IF r = 1 THEN [WdogNone EXCEPT !.pc = "loop"]
                                ELSE WdogNone]
    /\ fan = [FanNone EXCEPT !.pc = "start"]
    /\ table \in Tables
    /\ probe = ProbeIdle
    /\ store = StoreOpen
    /\ chat = ChatAt(0)

NextFanout ==
    \/ FanFormat
    \/ FanFetch
    \/ \E outcome \in SendOutcomes : FanSend(outcome)
    \/ FanSleep
    \/ FanTime
    \/ MainExit
    \/ \E message \in FanoutMessages : Deliver(message, TRUE)

SpecFanout == InitFanout /\ [][NextFanout]_vars

\* C9 as stated: no delivery fault, of whatever kind, ends the fan-out
\* before every fetched user has had an attempt.
C9_AnyFaultContinues ==
    fan.pc \in {"done", "aborted"} => fan.attempts = fan.users

\* C10: a send that fails because the user blocked or removed the bot never
\* ends the fan-out: the attempts made are the fetched users in order, each
\* once, only another kind of fault aborts, and a fan-out that is done has
\* attempted them all.
C10_ForbiddenDoesNotStop ==
    /\ Len(fan.attempts) = Len(fan.outcomes)
    /\ Len(fan.attempts) <= Len(fan.users)
    /\ \A k \in 1..Len(fan.attempts) : fan.attempts[k] = fan.users[k]
    /\ \A k \in 1..Len(fan.outcomes) :
          fan.outcomes[k] = "forbidden" =>
              (fan.pc # "aborted" \/ k < Len(fan.outcomes))
    /\ fan.pc = "aborted" => fan.outcomes[Len(fan.outcomes)] = "error"
    /\ fan.pc = "done" =>
          /\ fan.attempts = fan.users
          /\ \A t \in TelegramIds :
                Cardinality({k \in 1..Len(fan.attempts) : fan.attempts[k] = t}) <= 1

C10_Witness ==
    /\ fan.pc = "done"
    /\ Len(fan.users) = MaxUsers
    /\ fan.attempts = fan.users
    /\ fan.outcomes[1] = "forbidden"
    /\ fan.outcomes[2] = "ok"

\* C12: the fan-out is a task beside the serving loop: while it runs (users
\* remain to be notified) the main process is polling and every inbound
\* message can be handled at once, before the first send and between any
\* two sends; handling a message leaves the fan-out where it is, and a step
\* of the fan-out leaves the router as it is.
UsersRemain == FanRunning /\ MainAlive

ServingBesideFanout ==
    UsersRemain =>
        /\ main.pc = "polling"
        /\ \A message \in FanoutMessages : ENABLED Deliver(message, TRUE)

NoInterference ==
    /\ chat' # chat => fan' = fan
    /\ fan' # fan => chat' = chat

C12_FanoutDoesNotBlock == []ServingBesideFanout /\ [][NoInterference]_vars

C12_Witness ==
    /\ fan.pc = "sleep"
    /\ Len(fan.attempts) = 1
    /\ Len(fan.users) = MaxUsers
    /\ chat.ran = <<"command_id_handler">>
    /\ chat.replies = <<"id.html">>

\* C11: between two consecutive send attempts of the fan-out at least
\* DOWNTIME_NOTIFICATION_TIMEOUT has passed, whether the earlier attempt
\* succeeded or failed; and while the sleep lasts, the time waited and the
\* time left add up to the interval at least.
NextSendAttempt ==
    /\ Len(fan'.attempts) = Len(fan.attempts) + 1
    /\ Len(fan.attempts) > 0

C11_ThrottleBetweenSends ==
    [][/\ NextSendAttempt => fan.waited >= DOWNTIME_NOTIFICATION_TIMEOUT
       /\ fan.pc = "sleep" => fan.waited + fan.left >= DOWNTIME_NOTIFICATION_TIMEOUT]_vars

C11_Witness ==
    /\ Len(fan.attempts) = 2
    /\ fan.outcomes[1] = "forbidden"
    /\ fan.waited = 0

(***************************************************************************)
(* The serving model: the main process is polling, updates of every kind   *)
(* arrive, from the owner, from registered users and from strangers, dated *)
(* before and after the start.                                             *)
(***************************************************************************)
\* ensure_admin has run: the owner's row is there; the ids 2..n follow
ChatTables ==
    UNION { { <<UserRow(OWNER_USER_ID, OWNER_DEFAULT_USERNAME, ROLE_ADMIN)>>
                \o [k \in 1..(n - 1) |-> UserRow(k + 1, <<"b", "o", "b">>, f[k + 1])] :
              f \in [2..n -> {ROLE_USER, ROLE_ADMIN}] } :
            n \in 1..MaxUsers }

\* the text of a command is a slash and its name, here "/c"
MessagesOf(senders, dates, cmds, texts) ==
    {[from |-> f, date |-> d, cmd |-> c, text |-> <<"/", "c">>] :
        f \in senders, d \in dates, c \in cmds}
    \cup {[from |-> f, date |-> d, cmd |-> "", text |-> t] :
        f \in senders, d \in dates, t \in texts}

InitChat ==
    /\ now = MaxTick
    /\ net = TRUE
    /\ file = NoFile
    /\ written = NoStamp
    /\ main = [MainOff EXCEPT !.pc = "polling", !.run = 1, !.saw = "absent"]
    /\ timerp = [r \in RunIds |-> IF r = 1 THEN [TimerNone EXCEPT !.pc = "loop"]
                                  ELSE TimerNone]
    /\ wdog = [r \in RunIds |-> IF r = 1 THEN [WdogNone EXCEPT !.pc = "loop"]
                                ELSE WdogNone]
    /\ fan = FanNone
    /\ table \in ChatTables
    /\ probe = ProbeIdle
    /\ store = StoreOpen
    /\ \E bot_start_time \in 0..MaxTick : chat = ChatAt(bot_start_time)

\* the senders: nobody, and every id; the dates: the whole seconds up to
\* the one after the horizon of the clock; the commands of constants.py
\* lines 21-27, and /start
NextChat ==
    \E message \in
          MessagesOf({NoUser} \cup TelegramIds, 0..((MaxTick + 1) \div 2),
                     {"cancel", "id", "start", "help", "check", "get_users",
                      "delete_user", "add_user"},
                     {<<"b", "o", "b">>, <<"2">>, <<"b", " ", "b">>}),
       ok \in BOOLEAN : Deliver(message, ok)

SpecChat == InitChat /\ [][NextChat]_vars

\* C17: a message dated before the start of the process is dropped before
\* any handler body is entered: no reply, no change of the table, no change
\* of any conversation state or data, whatever the command and the sender.
DatedBeforeStart(message) == Ticks(message.date) < chat.start

C17_StaleDropped ==
    [][DatedBeforeStart(chat'.last) =>
          /\ chat'.replies = <<>>
          /\ chat'.ran = <<>>
          /\ table' = table
          /\ chat'.state = chat.state
          /\ chat'.data = chat.data]_vars

C17_Witness ==
    /\ chat.last.cmd = "start"
    /\ chat.last.from = OWNER_USER_ID
    /\ chat.last.date = 1
    /\ chat.start = MaxTick
    /\ chat.replies = <<>>

C17_WitnessFresh ==
    /\ chat.last.cmd = "start"
    /\ chat.last.date = 1
    /\ chat.start = 2
    /\ chat.replies # <<>>

\* C19 as stated: is_admin(tid) is True exactly when the row of tid has the
\* role admin, is_user(tid) exactly when it has the role user or admin, and
\* an admin-only (a registered-only) handler is entered for a message of the
\* present exactly when its sender is an admin (is registered).
RoleIn(tbl, telegram_id) ==
    IF \E k \in 1..Len(tbl) : tbl[k].telegram_id = telegram_id
    THEN tbl[CHOOSE k \in 1..Len(tbl) : tbl[k].telegram_id = telegram_id].role
    ELSE "None"

C19_RoleChecks ==
    LET sender == chat.last.from
        handled == ~DatedBeforeStart(chat.last)
    IN  sender \in TelegramIds =>
          /\ is_admin(table, sender, TRUE) <=> RoleIn(table, sender) = ROLE_ADMIN
          /\ is_user(table, sender, TRUE)
                <=> RoleIn(table, sender) \in {ROLE_USER, ROLE_ADMIN}
          /\ (chat.last.cmd = "get_users" /\ handled) =>
                (chat.ran # <<>> <=> RoleIn(table, sender) = ROLE_ADMIN)
          /\ (chat.last.cmd = "check" /\ handled) =>
                (chat.ran # <<>> <=> RoleIn(table, sender) \in {ROLE_USER, ROLE_ADMIN})

\* C26: a message from a sender whose role in the directory is not admin
\* (a plain user, an unregistered sender, a message without a sender) never
\* inserts or deletes a row and never starts, advances or cancels an
\* add-user or delete-user dialog: the table, every conversation state and
\* every conversation's data are as before, and the body of no admin
\* handler is entered.
C26_NonAdminInert ==
    [][RoleIn(table, chat'.last.from) # ROLE_ADMIN =>
          /\ table' = table
          /\ chat'.state = chat.state
          /\ chat'.data = chat.data
          /\ \A k \in 1..Len(chat'.ran) : chat'.ran[k] \notin AdminHandlers]_vars

\* a registered plain user has sent /add_user in the present
C26_Witness ==
    /\ chat.last.cmd = "add_user"
    /\ chat.last.from = 2
    /\ RoleIn(table, 2) = ROLE_USER
    /\ ~DatedBeforeStart(chat.last)
    /\ chat.ran = <<>>
    /\ chat.state[2] = "none"

\* an unregistered sender has sent a plain text and got the answer to an
\* unknown message
C26_WitnessStranger ==
    /\ chat.last.cmd = ""
    /\ chat.last.from = MaxUsers
    /\ RoleIn(table, MaxUsers) = "None"
    /\ chat.ran = <<"unknown_message_handler">>

(***************************************************************************)
(* The model of the dialogs: the bodies of the admin handlers, each        *)
(* entered for the message the router would give it, past the admission    *)
(* check of its decorator (which, as is_admin stands, lets no sender in).  *)
(* What a body calls, command_cancel included, is called as the code       *)
(* calls it.                                                               *)
(***************************************************************************)
InitHandlers ==
    /\ now = MaxTick
    /\ net = TRUE
    /\ file = NoFile
    /\ written = NoStamp
    /\ main = [MainOff EXCEPT !.pc = "polling", !.run = 1, !.saw = "absent"]
    /\ timerp = [r \in RunIds |-> IF r = 1 THEN [TimerNone EXCEPT !.pc = "loop"]
                                  ELSE TimerNone]
    /\ wdog = [r \in RunIds |-> IF r = 1 THEN [WdogNone EXCEPT !.pc = "loop"]
                                ELSE WdogNone]
    /\ fan = FanNone
    /\ table \in {t \in ChatTables : Len(t) <= 2}
    /\ probe = ProbeIdle
    /\ store = StoreOpen
    /\ chat = ChatAt(0)

NextHandlers ==
    \E message \in
          MessagesOf({OWNER_USER_ID}, {0}, {"cancel", "add_user", "delete_user"},
                     {<<"b", "o", "b">>, <<"b", " ", "b">>,
                      [i \in 1..(max_length + 1) |-> "a"],
                      <<"2">>, <<"3">>, <<"u", "s", "e", "r">>, <<"r", "o", "o", "t">>}),
       ok \in BOOLEAN : RunDialogBody(message, ok)

SpecHandlers == InitHandlers /\ [][NextHandlers]_vars

Roles == {ROLE_USER, ROLE_ADMIN}

ErrorReplies ==
    {"error.html: Incorrect name", "error.html: Incorrect Telegram ID",
     "error.html: Incorrect role", "error.html: Failed to delete user"}

\* the body entered first for the message of this step, and its text
Entered == IF chat'.ran = <<>> THEN "none" ELSE chat'.ran[1]

Text == chat'.last.text

ValidationFailure ==
    \/ Entered = "command_adduser_name_handler" /\ ~is_valid_string(Text)
    \/ /\ Entered \in {"command_adduser_telegram_id_handler",
                       "command_deluser_telegram_id_handler"}
       /\ ~ParseInt(Text).ok
    \/ Entered = "command_adduser_role_handler" /\ RoleOfText(Text) \notin Roles

\* the insert of the role step, or the delete, left the table as it was
InsertFailure ==
    /\ Entered = "command_adduser_role_handler"
    /\ RoleOfText(Text) \in Roles
    /\ table' = table

DeleteFailure ==
    /\ Entered = "command_deluser_telegram_id_handler"
    /\ ParseInt(Text).ok
    /\ table' = table

Sent(template) == \E k \in 1..Len(chat'.replies) : chat'.replies[k] = template

\* C18 as stated: in the add-user and delete-user dialogs every validation
\* failure and every failure of the insert or the delete sends an error
\* message and aborts the dialog (state and data cleared), and no success
\* message is sent for a failed insert or delete.
C18_FailuresAbort ==
    [][/\ (ValidationFailure \/ InsertFailure \/ DeleteFailure) =>
             /\ chat'.replies # <<>>
             /\ chat'.replies[1] \in ErrorReplies
             /\ chat'.state[chat'.last.from] = "none"
             /\ chat'.data[chat'.last.from] = NoData
       /\ InsertFailure => ~Sent("adduser_final.html")
       /\ DeleteFailure => ~Sent("deluser_final.html")]_vars

\* C18, its last sentence alone: no success message after a failed insert
C18_NoSuccessAfterFailedInsert ==
    [][InsertFailure => ~Sent("adduser_final.html")]_vars

\* C20: in the add-user dialog no row is created before the last step: not
\* by the add_user command, the name step or the telegram-id step, not by a
\* cancel nor by a step that fails; a row is created only by the role step
\* that receives a valid role, and it is the row of the name and the
\* telegram id stored since the add_user command of this dialog.
RowCreated == Len(table') > Len(table)

C20_InsertOnlyAtRoleStep ==
    [][LET sender == chat'.last.from
           d == chat.data[sender]
       IN  /\ RowCreated =>
                 /\ chat.state[sender] = "adduser_role"
                 /\ Entered = "command_adduser_role_handler"
                 /\ RoleOfText(Text) \in Roles
                 /\ d.dialog_name /\ d.dialog_telegram_id
                 /\ table' = Append(table, UserRow(d.telegram_id, d.name,
                                                   RoleOfText(Text)))
           /\ Entered \in {"command_adduser_handler", "command_adduser_name_handler",
                           "command_adduser_telegram_id_handler", "command_cancel"}
                 => table' = table
           /\ (Entered = "command_adduser_role_handler" /\ RoleOfText(Text) \notin Roles)
                 => table' = table]_vars

C20_Witness ==
    /\ chat.ran = <<"command_adduser_role_handler">>
    /\ chat.replies = <<"adduser_final.html">>
    /\ Len(table) = 2
    /\ table[2] = UserRow(3, <<"r", "o", "o", "t">>, ROLE_USER)
    /\ chat.state[OWNER_USER_ID] = "none"

C20_WitnessAborted ==
    /\ chat.ran = <<"command_adduser_telegram_id_handler">>
    /\ chat.replies = <<"error.html: Incorrect Telegram ID">>
    /\ Len(table) = 1

\* C27 as stated: every dialog ends with no active state: after the step
\* that sends the final message of the delete-user dialog, as after the one
\* that sends the final message of the add-user dialog, the conversation
\* state of the sender is cleared.
C27_DialogsEndCleared ==
    [][(Sent("deluser_final.html") \/ Sent("adduser_final.html")) =>
          chat'.state[chat'.last.from] = "none"]_vars

\* C27, the add-user half alone
C27_AdduserEndsCleared ==
    [][Sent("adduser_final.html") =>
          (chat'.state[chat'.last.from] = "none" /\ chat'.data[chat'.last.from] = NoData)]_vars

\* the row of 2 is deleted, the final message sent, and the sender is still
\* in the state that takes the next plain message for a telegram id
C27_StateLeftAfterDelete ==
    /\ chat.replies = <<"deluser_final.html">>
    /\ chat.last.text = <<"2">>
    /\ chat.state[chat.last.from] = "deluser_telegram_id"
    /\ Len(table) = 1

(***************************************************************************)
(* The model of the directory: the methods of one IMSADB object called in  *)
(* any order, each with a statement of its own failing or none, on a       *)
(* database file that is empty when the object is made.                    *)
(***************************************************************************)
InitDirectory ==
    /\ now = 0
    /\ net = TRUE
    /\ file = NoFile
    /\ written = NoStamp
    /\ main = [MainOff EXCEPT !.pc = "start_bot", !.run = 1, !.saw = "absent"]
    /\ timerp = [r \in RunIds |-> TimerNone]
    /\ wdog = [r \in RunIds |-> WdogNone]
    /\ fan = FanNone
    /\ table = <<>>
    /\ probe = ProbeIdle
    /\ store = StoreNew
    /\ chat = ChatAt(0)

NextDirectory ==
    \/ \E fault \in {"none", "connect", "create", "select", "insert"} : DbConnect(fault)
    \/ DbClose
    \/ \E fault \in {"none", "create", "select", "insert"} : DbInitDb(fault)
    \/ \E fault \in {"none", "select", "insert"} : DbEnsureAdmin(fault)
    \/ \E fault \in {"none", "select"} : DbGetAllUsers(fault)
    \/ \E telegram_id \in 1..MaxRows, name \in {<<"b", "o", "b">>, <<"a", "m", "y">>}, role \in {ROLE_USER, ROLE_ADMIN},
          fault \in {"none", "insert"} : DbAddUser(telegram_id, name, role, fault)
    \/ \E telegram_id \in 1..MaxRows, fault \in {"none", "select"} :
          DbGetUser(telegram_id, fault)
    \/ \E telegram_id \in 1..MaxRows, fault \in {"none", "delete"} :
          DbDeleteUser(telegram_id, fault)

SpecDirectory == InitDirectory /\ [][NextDirectory]_vars

\* the call of this step, and the row of telegram_id in the rows tbl
Called(op) == store'.last.op = op /\ store'.last.raised = "none"

Lookup(tbl, telegram_id) == get_user(tbl, telegram_id, TRUE)

\* the rows of tbl with the role admin
Admins(tbl) == {k \in 1..Len(tbl) : tbl[k].role = ROLE_ADMIN}

\* this step is a call of init_db, or of connect, which calls it, during
\* which no statement failed and which returned True
Initialized ==
    /\ store'.last.op \in {"connect", "init_db"}
    /\ store'.last.fault = "none"
    /\ store'.last.result = "True"

\* C21 as stated: an initialization of a directory without an admin record
\* leaves exactly one admin record; an initialization of a directory with
\* an admin record adds no record; so after any number of initializations
\* of a directory that had no admin there is exactly one.
C21_BootstrapIdempotent ==
    [][Initialized =>
          /\ Admins(table) = {} => Cardinality(Admins(table')) = 1
          /\ Admins(table) # {} => table' = table]_vars

\* C21, its second half alone: with an admin present nothing is added
C21_NothingAddedWhenAdminPresent ==
    [][(Initialized /\ Admins(table) # {}) => table' = table]_vars

\* the directory without an admin in which the owner's id is held: init_db
\* has returned True and there is no admin
C21_OwnerHeldByUser ==
    /\ store.last.op = "init_db"
    /\ store.last.fault = "none"
    /\ store.last.result = "True"
    /\ Admins(table) = {}
    /\ Lookup(table, OWNER_USER_ID).found

\* C22 as stated: no method of the directory raises to its caller, whatever
\* the state of the connection.
C22_NeverRaises == store.last.raised = "none"

OthersUnchanged ==
    \A t \in 1..MaxRows : t # store'.last.telegram_id => Lookup(table', t) = Lookup(table, t)

\* C23: after an add_user(tid, name, role) that returned True, get_user(tid)
\* gives a row with that name and that role; after a delete_user(tid) whose
\* statement was executed, get_user(tid) gives absence; the rows of the
\* other telegram ids are as they were, after both.
C23_AddGetDelete ==
    [][/\ (Called("add_user") /\ store'.last.result = "True") =>
             /\ Lookup(table', store'.last.telegram_id).found
             /\ Lookup(table', store'.last.telegram_id).row.name = store'.last.name
             /\ Lookup(table', store'.last.telegram_id).row.role = store'.last.role
       /\ (Called("delete_user") /\ store'.last.fault = "none") =>
             ~Lookup(table', store'.last.telegram_id).found
       /\ (Called("add_user") \/ Called("delete_user")) => OthersUnchanged]_vars

\* the row of 2 was inserted beside the owner's, and is found
C23_Witness ==
    /\ store.last.op = "add_user"
    /\ store.last.telegram_id = 2
    /\ store.last.result = "True"
    /\ Len(table) = 2
    /\ Lookup(table, 2).row = UserRow(2, <<"a", "m", "y">>, ROLE_USER)

\* the owner's row was deleted, the other row is left
C23_WitnessDeleted ==
    /\ store.last.op = "delete_user"
    /\ store.last.telegram_id = OWNER_USER_ID
    /\ store.last.result = "True"
    /\ ~Lookup(table, OWNER_USER_ID).found
    /\ Lookup(table, 2).found

(***************************************************************************)
(* The model of the configuration: one start of the program, from its      *)
(* imports on, under every environment of a bounded set, beside the        *)
(* processes it starts, the clock and the network.                         *)
(***************************************************************************)
Envs ==
    {[BOT_TOKEN |-> b, OWNER_USER_ID |-> o] :
        b \in {Unset, SetTo(<<>>), SetTo(<<"t">>)},
        o \in {Unset, SetTo(<<>>), SetTo(Str(OWNER_USER_ID)), SetTo(<<"x">>)}}

InitConfig ==
    /\ now = 0
    /\ net \in BOOLEAN
    /\ file = [exists |-> TRUE, data |-> Str(0)]
    /\ written = Stamp(0)
    /\ \E env \in Envs : main = [MainOff EXCEPT !.pc = "import", !.run = 1, !.env = env]
    /\ timerp = [r \in RunIds |-> TimerNone]
    /\ wdog = [r \in RunIds |-> WdogNone]
    /\ fan = FanNone
    /\ table = <<>>
    /\ probe = ProbeIdle
    /\ store = StoreNew
    /\ chat = ChatAt(0)

NextConfig ==
    \/ MainImport
    \/ MainWaitNet
    \/ MainGetTime
    \/ MainReadFile
    \/ MainStartTimer
    \/ MainStartTracker
    \/ MainStartBot
    \/ MainExit
    \/ \E r \in RunIds : TimerStep(r)
    \/ \E r \in RunIds : WdogStep(r)
    \/ Tick
    \/ NetChange

SpecConfig == InitConfig /\ [][NextConfig]_vars

\* BOT_TOKEN or OWNER_USER_ID is missing or empty
Missing(variable) == ~variable.set \/ variable.value = <<>>

ConfigMissing == Missing(main.env.BOT_TOKEN) \/ Missing(main.env.OWNER_USER_ID)

\* nothing of the program has begun: no child process, the heartbeat file
\* neither read nor written, no fan-out
NothingStarted ==
    /\ \A r \in RunIds : timerp[r].pc = "none" /\ wdog[r].pc = "none"
    /\ main.saw = "nothing"
    /\ file = [exists |-> TRUE, data |-> Str(0)]
    /\ fan.pc = "none"

\* C24: when BOT_TOKEN or OWNER_USER_ID is missing or empty the process
\* exits at startup, in its first step, before the Heartbeat Writer or the
\* Network Watchdog is started and before the heartbeat file is read or
\* written.
C24_ExitsBeforeComponents ==
    /\ [](ConfigMissing => (main.pc \in {"import", "exited"} /\ NothingStarted))
    /\ [][(ConfigMissing /\ main' # main) => (main.pc = "import" /\ main'.pc = "exited")]_vars

C24_Witness ==
    /\ main.env.BOT_TOKEN = SetTo(<<>>)
    /\ main.env.OWNER_USER_ID = SetTo(Str(OWNER_USER_ID))
    /\ main.pc = "exited"
    /\ now = MaxTick
    /\ NothingStarted

C24_WitnessConfigured ==
    /\ ~ConfigMissing
    /\ main.pc = "polling"
    /\ timerp[main.run].pc = "sleep"
    /\ written.known /\ written.val > 0

(***************************************************************************)
(* The model of the formatter: format_seconds applied, in the place where  *)
(* the fan-out calls it, to every duration of a bounded set: negative      *)
(* ones, and every mix of zero, one and several days, hours, minutes and   *)
(* seconds.                                                                *)
(***************************************************************************)
InitFormat ==
    /\ now = 0
    /\ net = TRUE
    /\ file = NoFile
    /\ written = NoStamp
    /\ \E seconds \in
            {d * 86400 + h * 3600 + m * 60 + sec :
                d \in 0..MaxDays, h \in {0, 1, 2, 23}, m \in {0, 1, 2, 59},
                sec \in {0, 1, 30, 59}}
            \cup {-1, -59, -60, -3661, -90000} :
          main = [MainOff EXCEPT !.pc = "polling", !.run = 1, !.saw = "absent",
                                 !.downtime = seconds]
    /\ timerp = [r \in RunIds |-> TimerNone]
    /\ wdog = [r \in RunIds |-> WdogNone]
    /\ fan = [FanNone EXCEPT !.pc = "start"]
    /\ table = <<>>
    /\ probe = ProbeIdle
    /\ store = StoreOpen
    /\ chat = ChatAt(0)

NextFormat == FanFormat

SpecFormat == InitFormat /\ [][NextFormat]_vars

\* the count and its unit, the unit in the singular for 1
Counted(n, singular, plural) ==
    IF n = 1 THEN "1 " \o singular ELSE ToString(n) \o " " \o plural

\* the rendering the claim describes, by which of the days d, hours h and
\* minutes m of the duration are zero
Rendering(seconds) ==
    LET d == seconds \div 86400
        h == (seconds % 86400) \div 3600
        m == (seconds % 3600) \div 60
        D == Counted(d, "day", "days")
        H == Counted(h, "hour", "hours")
        M == Counted(m, "minute", "minutes")
    IN  CASE d > 0 /\ h > 0 /\ m > 0 -> D \o ", " \o H \o ", " \o M
          [] d > 0 /\ h > 0 /\ m = 0 -> D \o ", " \o H
          [] d > 0 /\ h = 0 /\ m > 0 -> D \o ", " \o M
          [] d > 0 /\ h = 0 /\ m = 0 -> D
          [] d = 0 /\ h > 0 /\ m > 0 -> H \o ", " \o M
          [] d = 0 /\ h > 0 /\ m = 0 -> H
          [] OTHER -> M

\* C25: format_seconds renders every negative input as the sentinel, never
\* as a number with a minus sign; every non-negative input as its days,
\* hours and minutes in that order, seconds dropped, zero units left out,
\* the unit in the singular for 1, and the minutes shown even when zero if
\* there is no larger unit: 0 -> "0 minutes", 90 -> "1 minute",
\* 3661 -> "1 hour, 1 minute", 90000 -> "1 day, 1 hour".
C25_FormatSeconds ==
    FanFormatted =>
        /\ main.downtime < 0 => fan.downtime_str = "[UNKNOWN]"
        /\ main.downtime >= 0 => fan.downtime_str = Rendering(main.downtime)
        /\ main.downtime = 0 => fan.downtime_str = "0 minutes"
        /\ main.downtime = 90 => fan.downtime_str = "1 minute"
        /\ main.downtime = 3661 => fan.downtime_str = "1 hour, 1 minute"
        /\ main.downtime = 90000 => fan.downtime_str = "1 day, 1 hour"

C25_Witness ==
    /\ FanFormatted
    /\ main.downtime = 90000
    /\ fan.downtime_str = "1 day, 1 hour"

C25_WitnessNegative ==
    /\ FanFormatted
    /\ main.downtime = -3661
    /\ fan.downtime_str = "[UNKNOWN]"

====
